---- MODULE Spec2Model ----
(***************************************************************************)
(* The UrlEncoded guard of rocket-enumform (src/src/lib.rs): the bounded   *)
(* read of a request body, the request-local cache of the text read, the   *)
(* decode through serde_urlencoded, the mapping of every failure to a      *)
(* status, the two form-field entry points and the responder.              *)
(*                                                                         *)
(* A body is a head (the text that decides what the codec makes of it)     *)
(* followed by pad bytes of further pairs the target types ignore, so    *)
(* that its length can sit on either side of a limit of 32 KiB.            *)
(***************************************************************************)
EXTENDS Integers, Sequences, FiniteSets, TLC

VARIABLES formLimit, pc, cur, nread, cache, reached, res, trace, count, resp

vars == <<formLimit, pc, cur, nread, cache, reached, res, trace, count, resp>>

\* ------------------------------------------------------------- bounds
\* guard invocations one request may see
MaxInvocations == 2
\* guard invocations per request when two requests run concurrently
MaxConcInvocations == 2

\* ---------------------------------------------------------- constants
\* Limits::FORM, the built-in form limit (32 KiB)
FORM == 32768
PayloadTooLarge == 413
UnprocessableEntity == 422
BadRequest == 400
InternalServerError == 500
StatusOk == 200

Requests == {"r1", "r2"}
SoloRequests == {"r1"}

\* the form limit of the configuration: absent, or a byte count
FormLimits == {{}, {8}}

Types == {"Stars", "Map"}
GoodHead == "stars=5"
BadHead == "stars=x"
InvalidUtf8 == "<0xFF>"
Heads == {GoodHead, BadHead, InvalidUtf8}
ValueHeads == {GoodHead, BadHead}
Pads == {0, 2, FORM - 7, FORM - 6}
Faults == {"none", "UnexpectedEof", "ConnectionReset"}
StreamEntries == {"data", "field_data"}
ReadPoints == {1, 8, FORM}
Values == {"Stars{5}", "Map{stars=5}", "Map{stars=x}", "5"}

ConcTypes == {"Stars"}
ConcHeads == {GoodHead, BadHead}
ConcPads == {0, 2}
ConcFaults == {"none"}

Min(a, b) == IF a <= b THEN a ELSE b

HeadLen(h) == IF h = InvalidUtf8 THEN 1 ELSE 7

\* ------------------------------------------------------------- values
Text(owner, seq, head, len) ==
    [owner |-> owner, seq |-> seq, head |-> head, len |-> len]

Source(owner, seq, head, pad, fault) ==
    [owner |-> owner, seq |-> seq, head |-> head, pad |-> pad, fault |-> fault]

NoSource == Source("", 0, "", 0, "none")

NoInvocation == [entry |-> "none", T |-> "", src |-> NoSource]

\* enum Error<'a> { Io(io::Error), Parse(&'a str, de::Error) }
NoError == [variant |-> "None", kind |-> "", origin |-> "", raw |-> {}, codec |-> ""]

IoError(kind, origin) ==
    [variant |-> "Io", kind |-> kind, origin |-> origin, raw |-> {}, codec |-> ""]

ParseError(s, e) ==
    [variant |-> "Parse", kind |-> "", origin |-> "", raw |-> {s}, codec |-> e]

OkResult(v) == [ok |-> TRUE, value |-> v, err |-> NoError]
ErrResult(e) == [ok |-> FALSE, value |-> "", err |-> e]
NoResult == [ok |-> FALSE, value |-> "", err |-> NoError]

NoFormError == [kind |-> "None", detail |-> ""]

Ev(ev, what, text) == [ev |-> ev, what |-> what, text |-> text]

NoRes ==
    [outcome |-> "none", status |-> 0, value |-> "", err |-> NoError,
     formErr |-> NoFormError, inner |-> NoResult]

NoResponse == [outcome |-> "none", status |-> 0, ctype |-> "", body |-> {}, log |-> <<>>]

NoResp == [given |-> "", out |-> NoResponse]

\* ---------------------------------------------------------- the codec
\* serde_urlencoded::from_str for the two target types: a struct with one
\* integer field stars, and a map of strings.  A text cut short of its head
\* has no complete stars pair.
Decode(T, s) ==
    IF T = "Map"
    THEN [ok |-> TRUE, value |-> "Map{" \o s.head \o "}", e |-> ""]
    ELSE IF s.len < HeadLen(s.head)
    THEN [ok |-> FALSE, value |-> "", e |-> "missing field stars"]
    ELSE IF s.head = GoodHead
    THEN [ok |-> TRUE, value |-> "Stars{5}", e |-> ""]
    ELSE [ok |-> FALSE, value |-> "", e |-> "invalid digit found in string"]

\* serde_urlencoded::to_string: only maps and structs serialize
Encode(v) ==
    CASE v = "Stars{5}" -> [ok |-> TRUE, text |-> "stars=5", e |-> ""]
      [] v = "Map{stars=5}" -> [ok |-> TRUE, text |-> "stars=5", e |-> ""]
      [] v = "Map{stars=x}" -> [ok |-> TRUE, text |-> "stars=x", e |-> ""]
      [] OTHER -> [ok |-> FALSE, text |-> "", e |-> "top-level serializer supports only maps and structs"]

\* ----------------------------------------------------- the bounded read
\* a lookup that never consults the configuration
Limit_ignores_config(fl) == FORM

\* req.limits().get("form").unwrap_or(Limits::FORM)
Limit(fl) == IF fl = {} THEN FORM ELSE CHOOSE n \in fl : TRUE

BodyLen(src) == HeadLen(src.head) + src.pad

\* the bytes data.open(limit) lets through
Cap(src, limit) == Min(BodyLen(src), limit)

ReadOk(s, complete) == [tag |-> "Ok", complete |-> complete, s |-> s, e |-> NoError]
ReadErr(e) == [tag |-> "Err", complete |-> FALSE, s |-> Text("", 0, "", 0), e |-> e]

\* data.open(limit).into_string().await once the source has delivered its
\* bytes without failing: the text must be UTF-8, and the read is complete
\* when the source held no more than limit bytes
into_string(src, limit) ==
    IF src.head = InvalidUtf8 /\ Cap(src, limit) >= 1
    THEN ReadErr(IoError("InvalidData", "utf8"))
    ELSE ReadOk(Text(src.owner, src.seq, src.head, Cap(src, limit)),
                BodyLen(src) <= limit)

\* the same await when the data source itself fails with an io::Error
source_error(src) == ReadErr(IoError(src.fault, "source"))

\* ------------------------------------------------------------ the guard
\* a cache that stores every value it is given
local_cache_overwrite(c, r, s) == [c EXCEPT ![r] = {s}]

\* a cache held by the application rather than by the request
local_cache_shared(c, r, s) ==
    IF \A q \in DOMAIN c : c[q] = {} THEN [q \in DOMAIN c |-> {s}] ELSE c

\* local_cache!(req, string): the request's cache keeps the first value stored
local_cache(c, r, s) == IF c[r] = {} THEN [c EXCEPT ![r] = {s}] ELSE c

\* UrlEncoded::from_str
from_str(T, s) ==
    LET d == Decode(T, s)
    IN  [result |-> IF d.ok THEN OkResult(d.value) ELSE ErrResult(ParseError(s, d.e)),
         trace |-> <<Ev("decode", T, {s})>>]

\* a from_data that takes whatever the read returned, complete or not
from_data_ignores_complete(c, r, T, rd) ==
    IF rd.tag = "Ok"
    THEN LET c2 == local_cache(c, r, rd.s)
             p == from_str(T, CHOOSE t \in c2[r] : TRUE)
         IN  [result |-> p.result, cache |-> c2, trace |-> p.trace]
    ELSE [result |-> ErrResult(rd.e), cache |-> c, trace |-> <<>>]

\* a from_data that decodes the string it has just read
from_data_decodes_own(c, r, T, rd) ==
    IF rd.tag = "Ok" /\ rd.complete
    THEN LET c2 == local_cache(c, r, rd.s)
             p == from_str(T, rd.s)
         IN  [result |-> p.result, cache |-> c2, trace |-> p.trace]
    ELSE IF rd.tag = "Ok"
    THEN [result |-> ErrResult(IoError("UnexpectedEof", "data limit exceeded")),
          cache |-> c, trace |-> <<>>]
    ELSE [result |-> ErrResult(rd.e), cache |-> c, trace |-> <<>>]

\* UrlEncoded::from_data, from the point where the read has resolved to rd
from_data(c, r, T, rd) ==
    IF rd.tag = "Ok" /\ rd.complete
    THEN LET c2 == local_cache(c, r, rd.s)
             p == from_str(T, CHOOSE t \in c2[r] : TRUE)
         IN  [result |-> p.result, cache |-> c2, trace |-> p.trace]
    ELSE IF rd.tag = "Ok"
    THEN [result |-> ErrResult(IoError("UnexpectedEof", "data limit exceeded")),
          cache |-> c, trace |-> <<>>]
    ELSE [result |-> ErrResult(rd.e), cache |-> c, trace |-> <<>>]

\* a match whose first arm takes every Io error
Outcome_any_io_too_large(x) ==
    IF x.ok
    THEN [outcome |-> "Success", status |-> 0, value |-> x.value, err |-> NoError,
          formErr |-> NoFormError, log |-> <<>>]
    ELSE IF x.err.variant = "Io"
    THEN [outcome |-> "Failure", status |-> PayloadTooLarge, value |-> "", err |-> x.err,
          formErr |-> NoFormError, log |-> <<>>]
    ELSE [outcome |-> "Failure", status |-> UnprocessableEntity, value |-> "", err |-> x.err,
          formErr |-> NoFormError, log |-> <<Ev("log", x.err.codec, {})>>]

\* a match without the Parse arm: a Parse error falls to the last arm
Outcome_parse_bad_request(x) ==
    IF x.ok
    THEN [outcome |-> "Success", status |-> 0, value |-> x.value, err |-> NoError,
          formErr |-> NoFormError, log |-> <<>>]
    ELSE IF x.err.variant = "Io" /\ x.err.kind = "UnexpectedEof"
    THEN [outcome |-> "Failure", status |-> PayloadTooLarge, value |-> "", err |-> x.err,
          formErr |-> NoFormError, log |-> <<>>]
    ELSE [outcome |-> "Failure", status |-> BadRequest, value |-> "", err |-> x.err,
          formErr |-> NoFormError, log |-> <<>>]

\* a match whose Parse arm does not log
Outcome_no_log(x) ==
    IF x.ok
    THEN [outcome |-> "Success", status |-> 0, value |-> x.value, err |-> NoError,
          formErr |-> NoFormError, log |-> <<>>]
    ELSE IF x.err.variant = "Io" /\ x.err.kind = "UnexpectedEof"
    THEN [outcome |-> "Failure", status |-> PayloadTooLarge, value |-> "", err |-> x.err,
          formErr |-> NoFormError, log |-> <<>>]
    ELSE IF x.err.variant = "Parse"
    THEN [outcome |-> "Failure", status |-> UnprocessableEntity, value |-> "", err |-> x.err,
          formErr |-> NoFormError, log |-> <<>>]
    ELSE [outcome |-> "Failure", status |-> BadRequest, value |-> "", err |-> x.err,
          formErr |-> NoFormError, log |-> <<>>]

\* the match of FromData::from_data on the result x of UrlEncoded::from_data
Outcome(x) ==
    IF x.ok
    THEN [outcome |-> "Success", status |-> 0, value |-> x.value, err |-> NoError,
          formErr |-> NoFormError, log |-> <<>>]
    ELSE IF x.err.variant = "Io" /\ x.err.kind = "UnexpectedEof"
    THEN [outcome |-> "Failure", status |-> PayloadTooLarge, value |-> "", err |-> x.err,
          formErr |-> NoFormError, log |-> <<>>]
    ELSE IF x.err.variant = "Parse"
    THEN [outcome |-> "Failure", status |-> UnprocessableEntity, value |-> "", err |-> x.err,
          formErr |-> NoFormError, log |-> <<Ev("log", x.err.codec, {})>>]
    ELSE [outcome |-> "Failure", status |-> BadRequest, value |-> "", err |-> x.err,
          formErr |-> NoFormError, log |-> <<>>]

\* impl From<Error<'_>> for form::Error<'_>
FormErrorFrom(e) ==
    IF e.variant = "Io"
    THEN [kind |-> "Io", detail |-> e.kind]
    ELSE [kind |-> "Custom", detail |-> e.codec]

\* the Ok(...?) of the two FromFormField methods on the result x
FieldResult(x) ==
    IF x.ok
    THEN [outcome |-> "Ok", status |-> 0, value |-> x.value, err |-> NoError,
          formErr |-> NoFormError, log |-> <<>>]
    ELSE [outcome |-> "Err", status |-> 0, value |-> "", err |-> NoError,
          formErr |-> FormErrorFrom(x.err), log |-> <<>>]

\* the entry point's own part, after UrlEncoded::from_data has returned x
Finish(entry, x) == IF entry = "data" THEN Outcome(x) ELSE FieldResult(x)

\* what the caller of the entry point receives, beside the result x of the
\* read and decode step it came from
Returned(f, x) ==
    [outcome |-> f.outcome, status |-> f.status, value |-> f.value, err |-> f.err,
     formErr |-> f.formErr, inner |-> x]

\* a responder that sends the serialization error to the client
respond_to_sends_error(v) ==
    LET e == Encode(v)
    IN  IF e.ok
        THEN [outcome |-> "Ok", status |-> StatusOk,
              ctype |-> "application/x-www-form-urlencoded", body |-> {e.text},
              log |-> <<>>]
        ELSE [outcome |-> "Err", status |-> InternalServerError, ctype |-> "",
              body |-> {e.e}, log |-> <<>>]

\* Responder::respond_to
respond_to(v) ==
    LET e == Encode(v)
    IN  IF e.ok
        THEN [outcome |-> "Ok", status |-> StatusOk,
              ctype |-> "application/x-www-form-urlencoded", body |-> {e.text},
              log |-> <<>>]
        ELSE [outcome |-> "Err", status |-> InternalServerError, ctype |-> "", body |-> {},
              log |-> <<Ev("log", e.e, {})>>]

\* -------------------------------------------------------------- states
Init ==
    /\ formLimit \in FormLimits
    /\ pc = [r \in Requests |-> "idle"]
    /\ cur = [r \in Requests |-> NoInvocation]
    /\ nread = [r \in Requests |-> 0]
    /\ cache = [r \in Requests |-> {}]
    /\ reached = [r \in Requests |-> {}]
    /\ res = [r \in Requests |-> NoRes]
    /\ trace = [r \in Requests |-> <<>>]
    /\ count = [r \in Requests |-> 0]
    /\ resp = [r \in Requests |-> NoResp]

\* a stream-based guard (FromData::from_data or FromFormField::from_data) is
\* called for request r with its own data source, and suspends in the read
Invoke(r, max, entry, T, head, pad, fault) ==
    /\ pc[r] \in {"idle", "done"}
    /\ count[r] < max
    /\ count' = [count EXCEPT ![r] = @ + 1]
    /\ cur' = [cur EXCEPT ![r] =
                 [entry |-> entry, T |-> T,
                  src |-> Source(r, count[r] + 1, head, pad, fault)]]
    /\ nread' = [nread EXCEPT ![r] = 0]
    /\ res' = [res EXCEPT ![r] = NoRes]
    /\ trace' = [trace EXCEPT ![r] = <<>>]
    /\ pc' = [pc EXCEPT ![r] = "reading"]
    /\ UNCHANGED <<formLimit, cache, reached, resp>>

\* the data source delivers more bytes, up to the limit
ReadChunk(r, p) ==
    /\ pc[r] = "reading"
    /\ nread[r] < Cap(cur[r].src, Limit(formLimit))
    /\ nread[r] < p
    /\ nread' = [nread EXCEPT ![r] = Min(p, Cap(cur[r].src, Limit(formLimit)))]
    /\ UNCHANGED <<formLimit, pc, cur, cache, reached, res, trace, count, resp>>

\* the read resolves to rd and the rest of the entry point runs to its return
Resolve(r, rd) ==
    LET x == from_data(cache, r, cur[r].T, rd)
        f == Finish(cur[r].entry, x.result)
    IN  /\ cache' = x.cache
        /\ reached' = IF rd.tag = "Ok" /\ rd.complete
                      THEN [reached EXCEPT ![r] = @ \cup {cur[r].src.seq}]
                      ELSE reached
        /\ res' = [res EXCEPT ![r] = Returned(f, x.result)]
        /\ trace' = [trace EXCEPT ![r] =
                       x.trace \o f.log \o <<Ev("return", f.outcome, {})>>]
        /\ pc' = [pc EXCEPT ![r] = "done"]
        /\ UNCHANGED <<formLimit, cur, nread, count, resp>>

\* the source is exhausted, or the limit is reached, without an I/O failure
Complete(r) ==
    /\ pc[r] = "reading"
    /\ cur[r].src.fault = "none"
    /\ nread[r] = Cap(cur[r].src, Limit(formLimit))
    /\ Resolve(r, into_string(cur[r].src, Limit(formLimit)))

\* the data source fails while the read awaits it
SourceFault(r) ==
    /\ pc[r] = "reading"
    /\ cur[r].src.fault # "none"
    /\ Resolve(r, source_error(cur[r].src))

\* the request is cancelled while the read is suspended: the future is dropped
Cancel(r) ==
    /\ pc[r] = "reading"
    /\ pc' = [pc EXCEPT ![r] = "cancelled"]
    /\ UNCHANGED <<formLimit, cur, nread, cache, reached, res, trace, count, resp>>

\* FromFormField::from_value: the field's value is already in memory
FromValue(r, max, T, head) ==
    /\ pc[r] \in {"idle", "done"}
    /\ count[r] < max
    /\ LET s == Text(r, count[r] + 1, head, HeadLen(head))
           p == from_str(T, s)
           f == FieldResult(p.result)
       IN  /\ cur' = [cur EXCEPT ![r] =
                        [entry |-> "field_value", T |-> T,
                         src |-> Source(r, count[r] + 1, head, 0, "none")]]
           /\ res' = [res EXCEPT ![r] = Returned(f, p.result)]
           /\ trace' = [trace EXCEPT ![r] =
                          p.trace \o f.log \o <<Ev("return", f.outcome, {})>>]
    /\ count' = [count EXCEPT ![r] = @ + 1]
    /\ nread' = [nread EXCEPT ![r] = 0]
    /\ pc' = [pc EXCEPT ![r] = "done"]
    /\ UNCHANGED <<formLimit, cache, reached, resp>>

\* the handler returns a Wrapper and the framework asks it to respond
Respond(r, v) ==
    /\ pc[r] \in {"idle", "done"}
    /\ resp' = [resp EXCEPT ![r] = [given |-> v, out |-> respond_to(v)]]
    /\ pc' = [pc EXCEPT ![r] = "responded"]
    /\ UNCHANGED <<formLimit, cur, nread, cache, reached, res, trace, count>>

\* one request, every input
Next ==
    \E r \in SoloRequests :
        \/ \E e \in StreamEntries, T \in Types, h \in Heads, p \in Pads, f \in Faults :
               Invoke(r, MaxInvocations, e, T, h, p, f)
        \/ \E p \in ReadPoints : ReadChunk(r, p)
        \/ Complete(r)
        \/ SourceFault(r)
        \/ Cancel(r)
        \/ \E T \in Types, h \in ValueHeads : FromValue(r, MaxInvocations, T, h)
        \/ \E v \in Values : Respond(r, v)

Spec == Init /\ [][Next]_vars

\* two requests whose guards interleave at the read
NextConc ==
    \E r \in Requests :
        \/ \E e \in StreamEntries, T \in ConcTypes, h \in ConcHeads, p \in ConcPads,
              f \in ConcFaults :
               Invoke(r, MaxConcInvocations, e, T, h, p, f)
        \/ \E p \in ReadPoints : ReadChunk(r, p)
        \/ Complete(r)
        \/ Cancel(r)

SpecConc == Init /\ [][NextConc]_vars

\* --------------------------------------------------------- the claims
\* the limit M of a request: the configured form limit, or the default
M == IF formLimit = {} THEN FORM ELSE CHOOSE n \in formLimit : TRUE

\* the length L of the body the current invocation of r was given
L(r) == HeadLen(cur[r].src.head) + cur[r].src.pad

\* the whole body of the current invocation of r, as text
Body(r) == Text(r, cur[r].src.seq, cur[r].src.head, L(r))

\* the current invocation of r is a stream-based guard that has returned
Returns(r, entries) == pc[r] = "done" /\ cur[r].entry \in entries

\* the source of the current invocation delivers valid text and never fails
Delivered(r) == cur[r].src.fault = "none" /\ cur[r].src.head # InvalidUtf8

\* no earlier invocation of r reached the cache step
FirstToCache(r) == reached[r] \subseteq {cur[r].src.seq}

\* the events of the current invocation of r that are of kind ev
Events(r, ev) == {i \in 1..Len(trace[r]) : trace[r][i].ev = ev}

\* C1 as stated, for a body the source delivers as valid text to the first
\* invocation of its request: the data guard succeeds iff L <= M, and whenever
\* L > M the outcome is exactly 413 payload too large.
C1_Original ==
    \A r \in Requests :
        Returns(r, {"data"}) /\ Delivered(r) /\ FirstToCache(r) =>
            /\ (res[r].outcome = "Success") <=> (L(r) <= M)
            /\ L(r) > M => res[r].outcome = "Failure" /\ res[r].status = 413

\* C1 as amended: when the source delivers valid text without an I/O failure,
\* a body longer than the limit (configured, or the default of 32 KiB) gives
\* exactly 413 with the data-limit error; and when moreover the codec accepts
\* the text and nothing is cached for the request yet, the data guard succeeds
\* iff L <= M.
C1_SizeEnforcement ==
    \A r \in Requests :
        Returns(r, {"data"}) /\ Delivered(r) =>
            /\ L(r) > M =>
                 /\ res[r].outcome = "Failure"
                 /\ res[r].status = 413
                 /\ res[r].err = IoError("UnexpectedEof", "data limit exceeded")
            /\ FirstToCache(r) /\ Decode(cur[r].T, Body(r)).ok =>
                 ((res[r].outcome = "Success") <=> (L(r) <= M))

\* a body one byte over the default limit has been refused with 413
C1_Witness ==
    \E r \in Requests :
        /\ Returns(r, {"data"}) /\ Delivered(r)
        /\ formLimit = {} /\ L(r) = FORM + 1
        /\ res[r].status = 413

\* C2: every failure of the data guard has exactly one status: 413 for an Io
\* error of kind UnexpectedEof, 422 for a Parse error, 400 for every other Io
\* error; and the error returned with it is the error the read and decode step
\* produced.
C2_StatusMapping ==
    \A r \in Requests :
        Returns(r, {"data"}) =>
            LET e == res[r].inner.err
            IN  /\ (res[r].outcome = "Failure") <=> ~res[r].inner.ok
                /\ res[r].outcome \in {"Success", "Failure"}
                /\ res[r].outcome = "Failure" =>
                     /\ e.variant \in {"Io", "Parse"}
                     /\ res[r].err = e
                     /\ res[r].status =
                          IF e.variant = "Io" /\ e.kind = "UnexpectedEof" THEN 413
                          ELSE IF e.variant = "Parse" THEN 422
                          ELSE 400

\* an Io error of another kind has been mapped to 400
C2_Witness ==
    \E r \in Requests :
        /\ Returns(r, {"data"})
        /\ res[r].err = IoError("ConnectionReset", "source")
        /\ res[r].status = 400

\* C3 as stated: an I/O failure raised by the data source itself, whatever its
\* kind, never gives 413.
C3_OnlyTruncationIs413 ==
    \A r \in Requests :
        Returns(r, {"data"}) /\ cur[r].src.fault # "none" => res[r].status # 413

\* C4 as stated, for a body the source delivers and the first invocation of its
\* request: a body the codec rejects for the target type gives 422, whatever
\* its length.
C4_Original ==
    \A r \in Requests :
        /\ Returns(r, {"data"}) /\ Delivered(r) /\ FirstToCache(r)
        /\ ~Decode(cur[r].T, Body(r)).ok
        => res[r].status = 422

\* C4 as amended: a body the codec rejects for the target type, that the read
\* returns complete (L <= M, no I/O failure, valid UTF-8) and that is the first
\* text cached for its request, gives 422 and the Parse error carrying that
\* text, never 400 or 413.
C4_ParseFailureIs422 ==
    \A r \in Requests :
        /\ Returns(r, {"data"}) /\ Delivered(r) /\ FirstToCache(r)
        /\ L(r) <= M
        /\ ~Decode(cur[r].T, Body(r)).ok
        => /\ res[r].outcome = "Failure"
           /\ res[r].status = 422
           /\ res[r].err = ParseError(Body(r), Decode(cur[r].T, Body(r)).e)

\* a malformed body of 7 bytes has been refused with 422
C4_Witness ==
    \E r \in Requests :
        /\ Returns(r, {"data"}) /\ Delivered(r) /\ FirstToCache(r)
        /\ L(r) = 7 /\ cur[r].src.head = BadHead /\ cur[r].T = "Stars"
        /\ res[r].status = 422

\* the read of the current invocation of r cannot return a complete text
ReadFails(r) ==
    \/ cur[r].src.fault # "none"
    \/ cur[r].src.head = InvalidUtf8
    \/ L(r) > M

\* C5: while the read is suspended, after it is cancelled, and after it has
\* ended in truncation or in an I/O failure, the codec has not been called in
\* this invocation and no Wrapper has been produced.
C5_NoDecodeBeforeCompleteRead ==
    \A r \in Requests :
        /\ cur[r].entry \in StreamEntries
        /\ \/ pc[r] \in {"reading", "cancelled"}
           \/ pc[r] = "done" /\ ReadFails(r)
        => /\ Events(r, "decode") = {}
           /\ res[r].outcome \notin {"Success", "Ok"}
           /\ res[r].value = ""

\* a body of 9 bytes against a limit of 8 has been refused after 8 bytes read
C5_Witness ==
    \E r \in Requests :
        /\ Returns(r, StreamEntries)
        /\ cur[r].src.fault = "none" /\ cur[r].src.head = GoodHead
        /\ L(r) = 9 /\ formLimit = {8} /\ nread[r] = 8
        /\ res[r].inner.err.kind = "UnexpectedEof"
        /\ Events(r, "decode") = {}

\* the current invocation of r logged the codec error e before it returned
LoggedBeforeReturn(r, e) ==
    \E i \in Events(r, "log") :
        /\ trace[r][i].what = e
        /\ \A j \in Events(r, "return") : i < j

CachedEarlier(r) == reached[r] \ {cur[r].src.seq} # {}

C8_NoSharingAcrossRequests ==
    \A r \in Requests :
        /\ \A t \in cache[r] : t.owner = r
        /\ Cardinality(cache[r]) <= 1
        /\ \A i \in Events(r, "decode") : \A t \in trace[r][i].text : t.owner = r
        /\ \A t \in res[r].inner.err.raw : t.owner = r
        /\ \A t \in res[r].err.raw : t.owner = r
        /\ pc[r] = "done" /\ res[r].inner.err.variant # "Io" => cache[r] # {}
        /\ reached[r] # {} => cache[r] # {}

\* one request has decoded its text while the other, with a text cached, is
\* in the middle of a read
C8_Witness ==
    /\ pc["r1"] = "reading" /\ nread["r1"] > 0 /\ cache["r1"] # {}
    /\ pc["r2"] = "done" /\ cache["r2"] # {}
    /\ Events("r2", "decode") # {}
    /\ \E t1 \in cache["r1"], t2 \in cache["r2"] : t1.head # t2.head

\* C9: respond_to has two outcomes: when encode succeeds, a response with the
\* form content type whose body is the encoded text; when it fails, status
\* 500 with no body, after the serialization error has been logged.
C9_RespondTo ==
    \A r \in Requests :
        pc[r] = "responded" =>
            LET e == Encode(resp[r].given)
                o == resp[r].out
            IN  IF e.ok
                THEN /\ o.outcome = "Ok"
                     /\ o.ctype = "application/x-www-form-urlencoded"
                     /\ o.body = {e.text}
                     /\ o.log = <<>>
                ELSE /\ o.outcome = "Err"
                     /\ o.status = 500
                     /\ o.body = {}
                     /\ o.log = <<Ev("log", e.e, {})>>

\* a value the codec cannot encode has been answered with 500
C9_Witness ==
    \E r \in Requests :
        /\ pc[r] = "responded"
        /\ resp[r].given = "5"
        /\ resp[r].out.status = 500

\* the first invocation of r that reached the cache step
FirstReached(r) == CHOOSE q \in reached[r] : \A p \in reached[r] : q <= p

\* C10: for any sequence of stream-based invocations on a request, the text
\* cached is the one read by the first invocation that reached the cache step;
\* every text handed to the codec, and the raw text of a Parse error, is that
\* text; a later invocation still reads and size-checks its own source and the
\* text it read is not decoded.
C10_FirstCachedTextIsDecoded ==
    \A r \in Requests :
        /\ (cache[r] # {}) <=> (reached[r] # {})
        /\ \A t \in cache[r] : t.owner = r /\ t.seq = FirstReached(r)
        /\ Returns(r, StreamEntries) =>
             /\ \A i \in Events(r, "decode") : trace[r][i].text = cache[r]
             /\ res[r].inner.err.variant = "Parse" => res[r].inner.err.raw = cache[r]
             /\ Delivered(r) /\ L(r) <= M =>
                  /\ nread[r] = L(r)
                  /\ Events(r, "decode") # {}
                  /\ FirstToCache(r) => cache[r] = {Body(r)}
             /\ Delivered(r) /\ L(r) > M =>
                  /\ nread[r] = M
                  /\ res[r].inner.err = IoError("UnexpectedEof", "data limit exceeded")
             /\ CachedEarlier(r) => \A t \in cache[r] : t.seq < cur[r].src.seq

\* a second invocation with a malformed body has succeeded on the well-formed
\* text of the first
C10_Witness ==
    \E r \in Requests :
        /\ Returns(r, StreamEntries) /\ CachedEarlier(r)
        /\ cur[r].src.head = BadHead /\ cur[r].T = "Stars"
        /\ \A t \in cache[r] : t.head = GoodHead /\ t.seq = 1
        /\ res[r].inner.ok

====
